---- MODULE Spec2Model ----
(***************************************************************************)
(* A model of eevee's conversation orchestrator (src/eevee/chatbot.py):    *)
(* the Message Log owned by a Chatbot, the two generator entry points      *)
(* get_stream_response / get_json_response with their suspension points,   *)
(* the caller that pulls fragments from them, the connector that produces  *)
(* fragments, and the tools of src/eevee/tools.py.                         *)
(*                                                                         *)
(* A Python generator runs only while the caller is inside next(): the     *)
(* variable pc holds the generator's position.  At the positions of        *)
(* Suspended the generator waits at a yield (or has not been started) and  *)
(* only the caller can act; at every other position exactly the generator's*)
(* next statement can run.                                                 *)
(***************************************************************************)
EXTENDS Naturals, Sequences, FiniteSets, TLC

VARIABLES
    messages,       \* Chatbot.messages: the Message Log
    pc,             \* position of the active generator, "idle" when there is none
    mode,           \* "stream" | "json": the entry point of the latest turn
    args,           \* the entry point's arguments: prompt, system_prompt, model
    final_message,  \* the local final_message of the entry point
    chat_piece,     \* the fragment the for loop is handling
    ti,             \* index of tool_call within chat_piece.tool_calls
    conn_hist,      \* this turn's backend calls: one sequence of fragments per call
    out,            \* the fragments the caller has received in this turn
    exc,            \* class of the exception raised in the latest call, or None
    status,         \* how the latest turn stands
    turns,          \* number of turns started
    fragments,      \* number of fragments the connectors have returned
    call_base,      \* length of the log when the connector was last invoked
    popped,         \* messages removed by the latest delete_last_interaction
    clean           \* every turn since the last reset_chat has ended by returning

vars == <<messages, pc, mode, args, final_message, chat_piece, ti,
          conn_hist, out, exc, status, turns, fragments, call_base, popped, clean>>

----------------------------------------------------------------------------
(* Bounds of the model *)

\* turns started in one behaviour
MaxTurns == 2
\* fragments the connectors return in one behaviour
MaxFragments == 3
\* tool calls carried by one fragment
MaxToolCalls == 2

----------------------------------------------------------------------------
(* Values *)

None == "<None>"

\* The texts are labelled by their place, so that they can be told apart:
\* the k-th fragment returned by a connector carries the delta "dk", the
\* t-th turn is started with the prompt "pt" and the system prompt "st".
Contents(k) == {"d" \o ToString(k)}
Prompts(t) == {"p" \o ToString(t)}
SystemPrompts(t) == {"s" \o ToString(t)}

\* "m1" is routed to a framework that has a connector, "m2" to a framework
\* that is not among the available ones, "m3" is not in the routing table.
Models == {"m1", "m2", "m3"}
available_frameworks == {"openai"}

\* tools_params_definitions: the registered tools
Registered == {"web_search", "surf"}
\* the names a backend may ask for
Functions == Registered \cup {"calc"}

\* ChatMessagePiece(content, tool_calls, info_message, model)
ChatMessagePiece(content, tool_calls, info_message, model) ==
    [content |-> content, tool_calls |-> tool_calls,
     info_message |-> info_message, model |-> model]

NoPiece == ChatMessagePiece(None, <<>>, None, None)

ToolCall(id, function) == [id |-> id, function |-> function, arguments |-> "x"]

tool_display_message(function, arguments) == "tool:" \o function

----------------------------------------------------------------------------
(* Message Log *)

Message(role, content, tool_calls, model) ==
    [role |-> role, content |-> content, tool_calls |-> tool_calls, model |-> model,
     displayed |-> (role \in {"user", "assistant"} /\ content # None)]

empty(ms) == ms = <<>>

last_message_index(ms) == Len(ms) - 1

\* ms[index] with Python's 0-based index
getitem(ms, index) == ms[index + 1]

append(ms, role, content, tool_calls, model) ==
    Append(ms, Message(role, content, tool_calls, model))

edit(ms, index, content) == [ms EXCEPT ![index + 1].content = content]

Concat(old, new) ==
    IF new = None THEN old ELSE IF old = None THEN new ELSE old \o new

update_content(ms, index, content) ==
    LET m == ms[index + 1]
        c == Concat(m.content, content)
    IN  [ms EXCEPT ![index + 1] = Message(m.role, c, m.tool_calls, m.model)]

update_tool_calls(ms, index, tool_calls) ==
    [ms EXCEPT ![index + 1].tool_calls = tool_calls]

pop(ms) == SubSeq(ms, 1, Len(ms) - 1)

----------------------------------------------------------------------------
(* Routing *)

get_model_framework(model) ==
    CASE model = "m1" -> "openai"
      [] model = "m2" -> "mistral"
      [] OTHER -> None

----------------------------------------------------------------------------
(* Tools *)

\* What a tool run can give: a returned string, or an exception leaving the tool.
ToolReturn(s) == [raised |-> FALSE, value |-> s]
ToolRaise(cls) == [raised |-> TRUE, value |-> cls]

\* web_search: the search request is issued before the try block, the results
\* are read inside it.
web_search ==
    { ToolRaise("DuckDuckGoSearchException"),
      ToolReturn("Error while searching the web: e"),
      ToolReturn("Title: t") }

\* surf: the whole body is inside the try block.
surf == { ToolReturn("page text"), ToolReturn("ERROR: e") }

callables(function) == IF function = "web_search" THEN web_search ELSE surf

----------------------------------------------------------------------------
(* Positions of a generator *)

Suspended == {"created", "y_info", "y_piece", "y_error"}

NoArgs == [prompt |-> None, system_prompt |-> None, model |-> None]

Init ==
    /\ messages = <<>>
    /\ pc = "idle"
    /\ mode = None
    /\ args = NoArgs
    /\ final_message = FALSE
    /\ chat_piece = NoPiece
    /\ ti = 0
    /\ conn_hist = <<>>
    /\ out = <<>>
    /\ exc = None
    /\ status = "none"
    /\ turns = 0
    /\ fragments = 0
    /\ call_base = 0
    /\ popped = 0
    /\ clean = TRUE

----------------------------------------------------------------------------
(* Chatbot methods, as functions of the Message Log *)

\* _prepare_for_response that appends the system prompt on every turn
_prepare_always_append(ms, prompt, system_prompt) ==
    append(append(ms, "system", system_prompt, <<>>, None), "user", prompt, <<>>, None)

\* _prepare_for_response: the system prompt goes to index 0, the prompt is appended
_prepare_for_response(ms, prompt, system_prompt) ==
    LET with_system == IF empty(ms)
                       THEN append(ms, "system", system_prompt, <<>>, None)
                       ELSE edit(ms, 0, system_prompt)
    IN  append(with_system, "user", prompt, <<>>, None)

\* delete_last_interaction without its loop: only the last message is removed
delete_loop_once(ms) == [messages |-> ms, error |-> None]

\* the loop of delete_last_interaction, entered after the first pop; the result
\* holds the log and the exception leaving the method, if any
RECURSIVE delete_loop(_)
delete_loop(ms) ==
    IF empty(ms)
    THEN [messages |-> ms, error |-> "IndexError"]
    ELSE LET last_message == getitem(ms, Len(ms) - 1)
         IN  IF last_message.displayed
             THEN [messages |-> ms, error |-> None]
             ELSE IF last_message.role = "system" \/ empty(ms)
                  THEN [messages |-> ms, error |-> None]
                  ELSE delete_loop(pop(ms))

delete_last_interaction_of(ms) ==
    IF empty(ms)
    THEN [messages |-> ms, error |-> None]
    ELSE delete_loop(pop(ms))

\* get_stream_response, a fragment with tool calls: merged into a last assistant
\* message, else a new assistant message
stream_tool_calls(ms, tool_calls, model) ==
    IF getitem(ms, last_message_index(ms)).role = "assistant"
    THEN update_tool_calls(ms, last_message_index(ms), tool_calls)
    ELSE append(ms, "assistant", None, tool_calls, model)

\* stream_content that leaves the model out of a new assistant message
stream_content_unstamped(ms, content, model) ==
    IF getitem(ms, last_message_index(ms)).role = "assistant"
    THEN update_content(ms, last_message_index(ms), content)
    ELSE append(ms, "assistant", content, <<>>, None)

\* get_stream_response, a fragment without tool calls
stream_content(ms, content, model) ==
    IF getitem(ms, last_message_index(ms)).role = "assistant"
    THEN update_content(ms, last_message_index(ms), content)
    ELSE append(ms, "assistant", content, <<>>, model)

\* get_json_response appends in both cases
json_tool_calls(ms, tool_calls, model) ==
    append(ms, "assistant", None, tool_calls, model)

\* json_content that leaves the model out of the assistant message
json_content_unstamped(ms, content, model) ==
    append(ms, "assistant", content, <<>>, None)

json_content(ms, content, model) ==
    append(ms, "assistant", content, <<>>, model)

\* a tool-role message that is not tagged with its call
tool_message_untagged(ms, tool_output, tool_call) ==
    append(ms, "tool", tool_output, <<>>, None)

\* the tool-role message of one executed call
tool_message(ms, tool_output, tool_call) ==
    append(ms, "tool", tool_output, <<tool_call>>, None)

\* the error notice of get_stream_response's except block
ErrorNotice(cls) == "X _**" \o cls \o ":** e_"

----------------------------------------------------------------------------
(* The generator's frame *)

\* a turn that ends otherwise than by returning is remembered until reset_chat
Outcome == clean' = (clean /\ status' \in {"running", "done"})

ClearLocals ==
    /\ final_message' = FALSE
    /\ chat_piece' = NoPiece
    /\ ti' = 0

\* The generator ends: by returning ("done"), after the error notice ("failed"),
\* by an exception that leaves it ("raised"), or closed by the caller ("abandoned").
End(how, cls) ==
    /\ pc' = "idle"
    /\ status' = how
    /\ exc' = cls
    /\ ClearLocals

\* Raise with the error notice put in the log as an assistant message
Raise_logged(cls) ==
    /\ messages' = append(messages, "assistant", ErrorNotice(cls), <<>>, None)
    /\ IF mode = "stream"
       THEN /\ pc' = "y_error"
            /\ out' = Append(out, ChatMessagePiece(ErrorNotice(cls), <<>>, None, None))
            /\ exc' = cls
            /\ UNCHANGED <<status, final_message, chat_piece, ti>>
       ELSE /\ End("raised", cls)
            /\ UNCHANGED out

\* Raise with the except block of get_stream_response in both entry points
Raise_caught(cls) ==
    /\ messages' = messages
    /\ pc' = "y_error"
    /\ out' = Append(out, ChatMessagePiece(ErrorNotice(cls), <<>>, None, None))
    /\ exc' = cls
    /\ UNCHANGED <<status, final_message, chat_piece, ti>>

\* An exception inside the loop.  get_stream_response catches it and yields the
\* error notice; get_json_response lets it leave the generator.  The log is
\* left as it is.
Raise(cls) ==
    /\ messages' = messages
    /\ IF mode = "stream"
       THEN /\ pc' = "y_error"
            /\ out' = Append(out, ChatMessagePiece(ErrorNotice(cls), <<>>, None, None))
            /\ exc' = cls
            /\ UNCHANGED <<status, final_message, chat_piece, ti>>
       ELSE /\ End("raised", cls)
            /\ UNCHANGED out

----------------------------------------------------------------------------
(* The caller *)

Call(m, prompt, system_prompt, model) ==
    /\ pc = "idle"
    /\ turns < MaxTurns
    /\ pc' = "created"
    /\ mode' = m
    /\ args' = [prompt |-> prompt, system_prompt |-> system_prompt, model |-> model]
    /\ ClearLocals
    /\ conn_hist' = <<>>
    /\ out' = <<>>
    /\ exc' = None
    /\ status' = "running"
    /\ turns' = turns + 1
    /\ call_base' = 0
    /\ popped' = 0
    /\ UNCHANGED <<messages, fragments, clean>>

get_stream_response ==
    \E prompt \in Prompts(turns + 1), system_prompt \in SystemPrompts(turns + 1),
       model \in Models :
        Call("stream", prompt, system_prompt, model)

get_json_response ==
    \E prompt \in Prompts(turns + 1), system_prompt \in SystemPrompts(turns + 1),
       model \in Models :
        Call("json", prompt, system_prompt, model)

\* next() on the generator: it resumes after the yield it waits at
Pull ==
    /\ pc \in Suspended
    /\ IF pc = "y_error"
       THEN End("failed", exc)
       ELSE /\ pc' = CASE pc = "created" -> "start"
                       [] pc = "y_info" -> "exec"
                       [] pc = "y_piece" -> "for"
            /\ UNCHANGED <<status, exc, final_message, chat_piece, ti>>
    /\ UNCHANGED <<messages, mode, args, conn_hist, out, turns, fragments,
                   call_base, popped>>
    /\ Outcome

\* Abandon with the pending tool call completed before the generator ends
Abandon_completes_call ==
    /\ pc \in Suspended \ {"y_error"}
    /\ End("abandoned", exc)
    /\ messages' = IF pc = "y_info"
                   THEN tool_message(messages, "abandoned", chat_piece.tool_calls[ti])
                   ELSE messages
    /\ UNCHANGED <<mode, args, conn_hist, out, turns, fragments, call_base, popped>>
    /\ Outcome

\* the caller drops the generator without pulling again
Abandon ==
    /\ pc \in Suspended \ {"y_error"}
    /\ End("abandoned", exc)
    /\ UNCHANGED <<messages, mode, args, conn_hist, out, turns, fragments,
                   call_base, popped>>
    /\ Outcome

\* What is recorded of the latest turn is dropped when another method is called.
ForgetTurn ==
    /\ mode' = None
    /\ args' = NoArgs
    /\ conn_hist' = <<>>
    /\ out' = <<>>
    /\ status' = "none"
    /\ call_base' = 0

reset_chat ==
    /\ pc = "idle"
    /\ messages' = <<>>
    /\ exc' = None
    /\ popped' = 0
    /\ clean' = TRUE
    /\ ForgetTurn
    /\ UNCHANGED <<pc, final_message, chat_piece, ti, turns, fragments>>

delete_last_interaction ==
    /\ pc = "idle"
    /\ LET r == delete_last_interaction_of(messages)
       IN  /\ messages' = r.messages
           /\ exc' = r.error
           /\ popped' = Len(messages) - Len(r.messages)
    /\ ForgetTurn
    /\ UNCHANGED <<pc, final_message, chat_piece, ti, turns, fragments, clean>>

----------------------------------------------------------------------------
(* The generator: get_stream_response and get_json_response, statement by
   statement.  The two bodies differ in how a fragment is put in the log and
   in what happens to an exception. *)

CurrentCall == conn_hist[Len(conn_hist)]

RECURSIVE Flatten(_)
Flatten(ss) == IF ss = <<>> THEN <<>> ELSE Head(ss) \o Flatten(Tail(ss))

RECURSIVE CallsOf(_)
CallsOf(frags) ==
    IF frags = <<>> THEN <<>> ELSE Head(frags).tool_calls \o CallsOf(Tail(frags))

\* the ToolCalls the connector has returned in this turn, in arrival order
Requested == CallsOf(Flatten(conn_hist))

\* Start with _prepare_for_response ahead of the routing
Start_prepare_first ==
    /\ pc = "start"
    /\ messages' = _prepare_for_response(messages, args.prompt, args.system_prompt)
    /\ IF get_model_framework(args.model) = None
       THEN End("raised", "ValueError")
       ELSE /\ pc' = "while"
            /\ final_message' = FALSE
            /\ UNCHANGED <<chat_piece, ti, exc, status>>
    /\ UNCHANGED <<mode, args, conn_hist, out, turns, fragments, call_base, popped>>
    /\ Outcome

\* routing and _prepare_for_response, before the loop
Start ==
    /\ pc = "start"
    /\ IF get_model_framework(args.model) = None
       THEN /\ End("raised", "ValueError")
            /\ UNCHANGED messages
       ELSE /\ messages' = _prepare_for_response(messages, args.prompt, args.system_prompt)
            /\ pc' = "while"
            /\ final_message' = FALSE
            /\ UNCHANGED <<chat_piece, ti, exc, status>>
    /\ UNCHANGED <<mode, args, conn_hist, out, turns, fragments, call_base, popped>>
    /\ Outcome

\* while not final_message: final_message = True; the connector is called
While ==
    /\ pc = "while"
    /\ IF final_message
       THEN /\ End("done", None)
            /\ UNCHANGED <<messages, conn_hist, out, call_base>>
       ELSE IF get_model_framework(args.model) \notin available_frameworks
            THEN /\ Raise("KeyError")
                 /\ UNCHANGED <<conn_hist, call_base>>
            ELSE /\ pc' = "for"
                 /\ final_message' = TRUE
                 /\ conn_hist' = Append(conn_hist, <<>>)
                 /\ call_base' = Len(messages)
                 /\ UNCHANGED <<messages, chat_piece, ti, exc, status, out>>
    /\ UNCHANGED <<mode, args, turns, fragments, popped>>
    /\ Outcome

Received(piece) ==
    /\ pc' = "piece"
    /\ chat_piece' = piece
    /\ conn_hist' = [conn_hist EXCEPT ![Len(conn_hist)] = Append(@, piece)]
    /\ fragments' = fragments + 1
    /\ UNCHANGED <<messages, final_message, ti, exc, status, out>>

\* the tool-call fragments a connector may return: 1..MaxToolCalls calls with
\* ids unique in the turn; the first call's function is free, each further
\* call asks for the function after it in FunctionCycle
FunctionCycle == <<"web_search", "calc", "surf">>

CycleFrom(function, i) ==
    LET start == CHOOSE j \in 1..Len(FunctionCycle) : FunctionCycle[j] = function
    IN  FunctionCycle[((start + i - 2) % Len(FunctionCycle)) + 1]

ToolFragments ==
    LET n == Len(Requested)
    IN  { ChatMessagePiece(None, [i \in 1..k |-> ToolCall(n + i, CycleFrom(f, i))], None, None) :
            k \in 1..MaxToolCalls, f \in Functions }

\* for chat_piece in generator: the connector gives a fragment, ends or fails
For ==
    /\ pc = "for"
    /\ \/ /\ fragments < MaxFragments
          /\ \E content \in Contents(fragments + 1) :
                Received(ChatMessagePiece(content, <<>>, None, None))
       \/ /\ fragments < MaxFragments
          /\ \E piece \in ToolFragments : Received(piece)
       \/ /\ pc' = "while"
          /\ UNCHANGED <<messages, final_message, chat_piece, ti, exc, status, out,
                         conn_hist, fragments>>
       \/ /\ Raise("BackendError")
          /\ UNCHANGED <<conn_hist, fragments>>
    /\ UNCHANGED <<mode, args, turns, call_base, popped>>
    /\ Outcome

\* HandleToolCalls without final_message = False
HandleToolCalls_final_kept ==
    /\ final_message' = final_message
    /\ messages' = IF mode = "stream"
                   THEN stream_tool_calls(messages, chat_piece.tool_calls, args.model)
                   ELSE json_tool_calls(messages, chat_piece.tool_calls, args.model)
    /\ ti' = 1
    /\ pc' = "tool_for"
    /\ UNCHANGED <<chat_piece, out>>

\* if chat_piece.tool_calls: the fragment's calls are put in the log
HandleToolCalls ==
    /\ final_message' = FALSE
    /\ messages' = IF mode = "stream"
                   THEN stream_tool_calls(messages, chat_piece.tool_calls, args.model)
                   ELSE json_tool_calls(messages, chat_piece.tool_calls, args.model)
    /\ ti' = 1
    /\ pc' = "tool_for"
    /\ UNCHANGED <<chat_piece, out>>

\* else: the content is put in the log, the fragment is stamped and yielded
HandleContent ==
    /\ messages' = IF mode = "stream"
                   THEN stream_content(messages, chat_piece.content, args.model)
                   ELSE json_content(messages, chat_piece.content, args.model)
    /\ chat_piece' = [chat_piece EXCEPT !.model = args.model]
    /\ out' = Append(out, chat_piece')
    /\ pc' = "y_piece"
    /\ UNCHANGED <<final_message, ti>>

\* the body of the for loop up to its first yield
Piece ==
    /\ pc = "piece"
    /\ IF chat_piece.tool_calls # <<>> THEN HandleToolCalls ELSE HandleContent
    /\ UNCHANGED <<mode, args, conn_hist, exc, status, turns, fragments,
                   call_base, popped>>
    /\ Outcome

\* ToolFor without the yield of the info fragment
ToolFor_silent ==
    /\ pc = "tool_for"
    /\ pc' = IF ti > Len(chat_piece.tool_calls) THEN "for" ELSE "exec"
    /\ UNCHANGED <<messages, mode, args, final_message, chat_piece, ti, out,
                   conn_hist, exc, status, turns, fragments, call_base, popped>>
    /\ Outcome

\* for tool_call in chat_piece.tool_calls: yield the info fragment
ToolFor ==
    /\ pc = "tool_for"
    /\ IF ti > Len(chat_piece.tool_calls)
       THEN /\ pc' = "for"
            /\ UNCHANGED out
       ELSE LET tool_call == chat_piece.tool_calls[ti]
            IN  /\ out' = Append(out, ChatMessagePiece(None, <<>>,
                            tool_display_message(tool_call.function, tool_call.arguments), None))
                /\ pc' = "y_info"
    /\ UNCHANGED <<messages, mode, args, final_message, chat_piece, ti,
                   conn_hist, exc, status, turns, fragments, call_base, popped>>
    /\ Outcome

\* the tool has returned tool_output: it is appended as the call's tool message
ToolReturned(tool_output, tool_call) ==
    /\ messages' = tool_message(messages, tool_output, tool_call)
    /\ ti' = ti + 1
    /\ pc' = "tool_for"
    /\ UNCHANGED <<final_message, chat_piece, exc, status, out>>

\* Exec with a tool message in place of the failed lookup
Exec_skip_unregistered ==
    /\ pc = "exec"
    /\ LET tool_call == chat_piece.tool_calls[ti]
       IN  IF tool_call.function \notin Registered
           THEN ToolReturned("unknown tool", tool_call)
           ELSE \E r \in callables(tool_call.function) :
                   IF r.raised
                   THEN Raise(r.value)
                   ELSE ToolReturned(r.value, tool_call)
    /\ UNCHANGED <<mode, args, conn_hist, turns, fragments, call_base, popped>>
    /\ Outcome

\* after the info fragment: the tool is looked up and run
Exec ==
    /\ pc = "exec"
    /\ LET tool_call == chat_piece.tool_calls[ti]
       IN  IF tool_call.function \notin Registered
           THEN Raise("KeyError")
           ELSE \E r \in callables(tool_call.function) :
                   IF r.raised
                   THEN Raise(r.value)
                   ELSE ToolReturned(r.value, tool_call)
    /\ UNCHANGED <<mode, args, conn_hist, turns, fragments, call_base, popped>>
    /\ Outcome

GeneratorStep == Start \/ While \/ For \/ Piece \/ ToolFor \/ Exec

Next ==
    \/ get_stream_response
    \/ get_json_response
    \/ Pull
    \/ Abandon
    \/ reset_chat
    \/ delete_last_interaction
    \/ Start
    \/ While
    \/ For
    \/ Piece
    \/ ToolFor
    \/ Exec

Spec == Init /\ [][Next]_vars

\* The caller keeps pulling and the generator's code runs on to its next yield.
FairSpec == Spec /\ WF_vars(Pull) /\ WF_vars(GeneratorStep)

----------------------------------------------------------------------------
(* What a turn has put in the log *)

\* the user message of the latest turn, and the messages the turn put after it
UserMessage == Message("user", args.prompt, <<>>, None)

HasTurn == \E i \in 1..Len(messages) : messages[i] = UserMessage

UserIndex == CHOOSE i \in 1..Len(messages) : messages[i] = UserMessage

TurnMessages == SubSeq(messages, UserIndex + 1, Len(messages))

Last(s) == s[Len(s)]

IsPrefix(s, t) == Len(s) <= Len(t) /\ SubSeq(t, 1, Len(s)) = s

RECURSIVE WithRole(_, _)
WithRole(ms, role) ==
    IF ms = <<>> THEN <<>>
    ELSE (IF Head(ms).role = role THEN <<Head(ms)>> ELSE <<>>) \o WithRole(Tail(ms), role)

\* the ToolCalls that the tool-role messages of ms are tagged with, in log order
RECURSIVE ToolResults(_)
ToolResults(ms) ==
    IF ms = <<>> THEN <<>>
    ELSE (IF Head(ms).role = "tool" THEN Head(ms).tool_calls ELSE <<>>)
         \o ToolResults(Tail(ms))

----------------------------------------------------------------------------
(* C1: in both entry points, whenever the connector is about to be pulled or
   invoked again, and when the turn is done, every ToolCall the connector has
   returned in the turn has exactly one tool-role message tagged with it, in
   arrival order; at every moment the tool-role messages of the turn are
   tagged with calls the connector did return, one message per call. *)
C1_ToolDispatch ==
    (HasTurn /\ status # "none") =>
        /\ IsPrefix(ToolResults(TurnMessages), Requested)
        /\ Len(WithRole(TurnMessages, "tool")) = Len(ToolResults(TurnMessages))
        /\ (pc \in {"while", "for"} \/ status = "done") =>
                ToolResults(TurnMessages) = Requested

C1_Witness ==
    /\ status = "done"
    /\ Len(conn_hist) >= 2
    /\ Len(Requested) >= 3
    /\ ToolResults(TurnMessages) = Requested

----------------------------------------------------------------------------
(* The connector of C2: tool requests on each of the first N backend calls
   (every fragment of these calls carries tool calls), then one call that
   returns a single content fragment. *)

HasTools(piece) == piece.tool_calls # <<>>

ToolRoundsThenContent ==
    /\ conn_hist # <<>>
    /\ Len(Last(conn_hist)) = 1
    /\ ~HasTools(Last(conn_hist)[1])
    /\ \A k \in 1..(Len(conn_hist) - 1) :
          /\ conn_hist[k] # <<>>
          /\ \A j \in 1..Len(conn_hist[k]) : HasTools(conn_hist[k][j])

FinalContent == Last(conn_hist)[1].content

\* the assistant messages of ms that hold content
RECURSIVE Answers(_)
Answers(ms) ==
    IF ms = <<>> THEN <<>>
    ELSE (IF Head(ms).role = "assistant" /\ Head(ms).content # None
          THEN <<Head(ms)>> ELSE <<>>) \o Answers(Tail(ms))

\* a streaming turn is done only after a backend call that asked for no tool
C2_DoneAfterPlainCall ==
    (status = "done" /\ mode = "stream") =>
        /\ conn_hist # <<>>
        /\ \A j \in 1..Len(Last(conn_hist)) : ~HasTools(Last(conn_hist)[j])

\* with the connector of C2, the done turn has run every requested tool of the
\* N rounds, has made N+1 backend calls, and its log ends with the one
\* assistant message that holds the final content
C2_DoneState ==
    (status = "done" /\ mode = "stream" /\ ToolRoundsThenContent) =>
        /\ ToolResults(TurnMessages) = Requested
        /\ Len(WithRole(TurnMessages, "tool")) = Len(Requested)
        /\ Last(messages) = Message("assistant", FinalContent, <<>>, args.model)
        /\ Answers(TurnMessages) = <<Last(messages)>>
        /\ Last(out).content = FinalContent

\* once the final content fragment is with the caller, the turn reaches DONE
\* unless the caller abandons it or the connector does something else
C2_FinalFragmentYielded ==
    /\ status = "running"
    /\ mode = "stream"
    /\ pc = "y_piece"
    /\ ToolRoundsThenContent

C2_TurnOver ==
    \/ status \in {"done", "abandoned"}
    \/ exc # None
    \/ ~ToolRoundsThenContent

(* C2: given a connector that returns tool requests on each of its first N
   backend calls and a single plain-content fragment on call N+1, and a caller
   that keeps pulling, a streaming turn eventually reaches DONE, after N
   rounds of tool execution and N+1 backend calls, and the log then ends with
   one assistant message holding the final content. *)
C2_LoopTermination ==
    /\ [](C2_DoneAfterPlainCall /\ C2_DoneState)
    /\ (C2_FinalFragmentYielded ~> C2_TurnOver)

C2_Witness ==
    /\ status = "done"
    /\ mode = "stream"
    /\ ToolRoundsThenContent
    /\ Len(conn_hist) = 3
    /\ Len(WithRole(TurnMessages, "tool")) >= 2

----------------------------------------------------------------------------
(* Failures *)

Exceptions ==
    {"ValueError", "KeyError", "BackendError", "DuckDuckGoSearchException", "IndexError"}

ErrorNotices == { ErrorNotice(cls) : cls \in Exceptions }

\* the caller's output ends with the error notice, and holds no other one
C3_OneErrorFragment ==
    (mode = "stream" /\ (pc = "y_error" \/ status = "failed")) =>
        /\ exc \in Exceptions
        /\ out # <<>>
        /\ Last(out).content = ErrorNotice(exc)
        /\ Last(out).tool_calls = <<>>
        /\ \A i \in 1..(Len(out) - 1) : out[i].content \notin ErrorNotices

\* the step that raises and the steps after it leave the log as it is, call no
\* backend, run no tool, and lead only to the end of the generator
C3_LoopAborted ==
    /\ pc' = "y_error" => (messages' = messages /\ conn_hist' = conn_hist)
    /\ pc = "y_error" =>
          (messages' = messages /\ conn_hist' = conn_hist /\ pc' = "idle"
           /\ status' = "failed")

(* C3: in get_stream_response, an exception raised in the loop aborts it: no
   further backend call or tool execution, the caller's output ends with
   exactly one fragment whose content is the error notice, and the log stays
   exactly as it stood when the exception was raised. *)
C3_StreamFailure == []C3_OneErrorFragment /\ [][C3_LoopAborted]_vars

C3_Witness ==
    /\ mode = "stream"
    /\ status = "failed"
    /\ exc = "BackendError"
    /\ Len(out) >= 3
    /\ Len(conn_hist) = 2
    /\ Last(messages).role = "tool"

\* get_json_response never yields an error notice
C4_NoErrorFragment ==
    mode = "json" =>
        /\ pc # "y_error"
        /\ status # "failed"
        /\ \A i \in 1..Len(out) : out[i].content \notin ErrorNotices

\* the step in which get_json_response fails ends the generator with the
\* exception and leaves the log and the output as they are
C4_Propagated ==
    (mode = "json" /\ status = "running" /\ status' # "running" /\ exc' # None) =>
        /\ status' = "raised"
        /\ exc' \in Exceptions
        /\ pc' = "idle"
        /\ messages' = messages
        /\ out' = out
        /\ conn_hist' = conn_hist

(* C4: in get_json_response a failure of the connector call or of tool
   dispatch leaves the generator as that error: no error-notice fragment, no
   further backend call, and the log keeps what was appended before it. *)
C4_JsonFailure == []C4_NoErrorFragment /\ [][C4_Propagated]_vars

C4_Witness ==
    /\ mode = "json"
    /\ status = "raised"
    /\ exc = "BackendError"
    /\ Len(conn_hist) = 2
    /\ Last(messages).role = "tool"

(* C5: a failure inside a tool body never aborts the turn: every run of a
   registered tool ends with a string that is appended as the tool-role
   message of the call, and the loop goes on. *)
C5_ToolFailureNeverAborts ==
    [][(pc = "exec" /\ chat_piece.tool_calls[ti].function \in Registered) =>
          /\ pc' = "tool_for"
          /\ Len(messages') = Len(messages) + 1
          /\ Last(messages').role = "tool"
          /\ Last(messages').tool_calls = <<chat_piece.tool_calls[ti]>>]_vars

----------------------------------------------------------------------------
(* The system message *)

\* a non-empty log starts with its only system message
C6_SystemFirst ==
    messages # <<>> =>
        /\ messages[1].role = "system"
        /\ \A i \in 2..Len(messages) : messages[i].role # "system"

\* a new turn on a non-empty log: the content of index 0 is replaced, the
\* other messages stay where they are, the user message is added at the end
C6_ReplacedInPlace ==
    (pc = "start" /\ pc' = "while" /\ messages # <<>>) =>
        /\ Len(messages') = Len(messages) + 1
        /\ messages'[1] = [messages[1] EXCEPT !.content = args.system_prompt]
        /\ \A i \in 2..Len(messages) : messages'[i] = messages[i]
        /\ Last(messages') = UserMessage

(* C6: after any sequence of reset_chat, delete_last_interaction,
   get_stream_response and get_json_response calls, completed, failed or
   abandoned, a non-empty log has the role system at index 0 and nowhere
   else; a new turn on a non-empty log replaces the content of index 0 in
   place and leaves the other messages in their places. *)
C6_SystemMessage == []C6_SystemFirst /\ [][C6_ReplacedInPlace]_vars

C6_Witness ==
    /\ turns = 2
    /\ pc = "while"
    /\ Len(messages) >= 5
    /\ messages[1] = Message("system", "s2", <<>>, None)
    /\ messages[2].content = "p1"

----------------------------------------------------------------------------
(* delete_last_interaction *)

(* C7: delete_last_interaction is safe to call repeatedly: from every
   reachable log no call raises, and on an empty log it changes nothing. *)
C7_DeleteIsSafe ==
    [][delete_last_interaction =>
          /\ exc' = None
          /\ (messages = <<>> => messages' = <<>>)]_vars

\* the lengths of the proper prefixes of ms that are empty or end with a
\* displayed message or with the system message
Boundaries(ms) ==
    { k \in 0..(Len(ms) - 1) :
        k = 0 \/ ms[k].displayed \/ ms[k].role = "system" }

LongestBoundaryPrefix(ms) ==
    LET k == CHOOSE b \in Boundaries(ms) : \A c \in Boundaries(ms) : c <= b
    IN  SubSeq(ms, 1, k)

(* C8: on a non-empty log delete_last_interaction leaves the longest proper
   prefix of the log whose last message is displayed or is the system
   message, or the empty log if there is none; the prefix is unchanged. *)
C8_DeleteToBoundary ==
    [][(delete_last_interaction /\ messages # <<>>) =>
          messages' = LongestBoundaryPrefix(messages)]_vars

C8_Witness ==
    /\ popped >= 3
    /\ messages # <<>>
    /\ Last(messages).displayed
    /\ Last(messages).role = "user"

----------------------------------------------------------------------------
(* Content fragments in the log *)

\* the contents of the fragments of one backend call, concatenated in order
RECURSIVE Deltas(_)
Deltas(pieces) ==
    IF pieces = <<>> THEN None
    ELSE Concat(Head(pieces).content, Deltas(Tail(pieces)))

\* the latest backend call is over and gave content fragments only
ContentOnlyCallOver ==
    /\ mode = "stream"
    /\ status = "running"
    /\ pc = "while"
    /\ conn_hist # <<>>
    /\ Last(conn_hist) # <<>>
    /\ \A j \in 1..Len(Last(conn_hist)) : ~HasTools(Last(conn_hist)[j])

(* C9: in get_stream_response, after a backend call that yields content
   deltas c1..cn and no tool requests, the log has gained exactly one
   assistant message, whose content is c1..cn concatenated in arrival
   order. *)
C9_OneMessagePerCall ==
    ContentOnlyCallOver =>
        /\ Len(messages) = call_base + 1
        /\ Last(messages) =
              Message("assistant", Deltas(Last(conn_hist)), <<>>, args.model)

----------------------------------------------------------------------------
(* The two plain scenarios on a fresh conversation *)

\* the turn started on a log without earlier turns and is done
FreshTurnDone ==
    /\ mode = "stream"
    /\ status = "done"
    /\ HasTurn
    /\ UserIndex = 2

\* one fragment with one tool call, then a call with one content fragment
OneToolThenContent ==
    /\ Len(conn_hist) = 2
    /\ Len(conn_hist[1]) = 1
    /\ Len(conn_hist[1][1].tool_calls) = 1
    /\ Len(conn_hist[2]) = 1
    /\ ~HasTools(conn_hist[2][1])

\* one call with content fragments only
ContentOnly ==
    /\ Len(conn_hist) = 1
    /\ conn_hist[1] # <<>>
    /\ \A j \in 1..Len(conn_hist[1]) : ~HasTools(conn_hist[1][j])

ToolOutputs == { r.value : r \in { q \in web_search \cup surf : ~q.raised } }

(* C10: on a fresh conversation, a streaming turn whose connector returns one
   fragment with one tool call and then one content fragment leaves the log
   as exactly [system, user, assistant(tool_calls), tool(result),
   assistant(final content)] and gives the caller one info fragment followed
   by the final content fragment; with no tool requested the log is exactly
   [system, user, assistant(content)]. *)
C10_FreshTurnLog ==
    FreshTurnDone =>
        /\ OneToolThenContent =>
              LET tc == conn_hist[1][1].tool_calls[1]
                  final == conn_hist[2][1].content
              IN  /\ Len(messages) = 5
                  /\ messages[1] = Message("system", args.system_prompt, <<>>, None)
                  /\ messages[2] = UserMessage
                  /\ messages[3] = Message("assistant", None, <<tc>>, args.model)
                  /\ \E o \in ToolOutputs :
                        messages[4] = Message("tool", o, <<tc>>, None)
                  /\ messages[5] = Message("assistant", final, <<>>, args.model)
                  /\ out = << ChatMessagePiece(None, <<>>,
                                 tool_display_message(tc.function, tc.arguments), None),
                              ChatMessagePiece(final, <<>>, None, args.model) >>
        /\ ContentOnly =>
              messages = << Message("system", args.system_prompt, <<>>, None),
                            UserMessage,
                            Message("assistant", Deltas(conn_hist[1]), <<>>, args.model) >>

C10_Witness ==
    /\ FreshTurnDone
    /\ OneToolThenContent
    /\ turns = 1
    /\ messages[4].content = "Title: t"

C10_WitnessContentOnly ==
    /\ FreshTurnDone
    /\ ContentOnly
    /\ Len(conn_hist[1]) = 2

----------------------------------------------------------------------------
(* Routing failures and unregistered tools *)

\* the requested model has no framework, or its framework has no connector
RoutingFails == get_model_framework(args.model) \notin available_frameworks

UnknownModel == get_model_framework(args.model) = None

(* C11: during a streaming turn a routing failure (model not in the routing
   table, or framework without connector) is reported to the caller as one
   error-notice content fragment and never as an exception that leaves the
   output sequence. *)
C11_RoutingFailureReported ==
    (mode = "stream" /\ RoutingFails /\ status \notin {"running", "abandoned"}) =>
        /\ status = "failed"
        /\ Len(out) = 1
        /\ out[1].content \in ErrorNotices

\* the turn has failed at the lookup of a tool
FailedAtToolLookup == mode # None /\ exc = "KeyError" /\ ~RoutingFails

\* the tool messages of the failed turn are those of the calls before the
\* unregistered one, and the failure is with the caller
C12_StoppedAtUnregistered ==
    FailedAtToolLookup =>
        LET ran == ToolResults(TurnMessages)
        IN  /\ IsPrefix(ran, Requested)
            /\ Len(ran) < Len(Requested)
            /\ Requested[Len(ran) + 1].function \notin Registered
            /\ Len(WithRole(TurnMessages, "tool")) = Len(ran)
            /\ pc \in {"y_error", "idle"}
            /\ mode = "stream" =>
                  (status \in {"running", "failed"}
                   /\ Last(out).content = ErrorNotice("KeyError"))
            /\ mode = "json" => status = "raised"

\* the lookup of an unregistered tool, and every step while the failure
\* stands, leave the log as it is and call no backend
C12_NothingAfter ==
    /\ (pc = "exec" /\ chat_piece.tool_calls[ti].function \notin Registered) =>
          (exc' = "KeyError" /\ messages' = messages /\ conn_hist' = conn_hist)
    /\ (FailedAtToolLookup /\ exc' = "KeyError") =>
          (messages' = messages /\ conn_hist' = conn_hist /\ pc' = "idle")

(* C12: when the backend requests a tool name that is not registered the turn
   fails: no tool-role message is appended for that call, no later tool call
   of the fragment is executed, no further backend call is made, and the
   failure is surfaced to the caller. *)
C12_UnregisteredTool == []C12_StoppedAtUnregistered /\ [][C12_NothingAfter]_vars

C12_Witness ==
    /\ FailedAtToolLookup
    /\ status = "failed"
    /\ Len(ToolResults(TurnMessages)) = 1
    /\ Len(Requested) = 2

(* C13: every ChatMessagePiece that get_stream_response or get_json_response
   yields (content fragments, tool info fragments, the error notice) has its
   model field set to the requested model. *)
C13_ModelStamped ==
    mode # None => \A i \in 1..Len(out) : out[i].model = args.model

\* a turn for an unknown model ends with the lookup's exception only
C18_RaisedOnly ==
    (mode # None /\ UnknownModel /\ status \notin {"running", "abandoned"}) =>
        (status = "raised" /\ exc = "ValueError" /\ out = <<>>)

\* no step of a turn for an unknown model touches the log, calls the backend
\* or reaches the loop
C18_NoStep ==
    (mode' # None /\ get_model_framework(args'.model) = None) =>
        /\ messages' = messages
        /\ conn_hist' = <<>>
        /\ pc' \in {"created", "start", "idle"}

(* C18: when the requested model identifier is unknown, get_stream_response
   and get_json_response leave the log unchanged: the system prompt is not
   written, the user message is not appended, and no backend call or tool
   execution occurs. *)
C18_UnknownModelNoEffect == []C18_RaisedOnly /\ [][C18_NoStep]_vars

C18_Witness ==
    /\ mode = "json"
    /\ UnknownModel
    /\ status = "raised"
    /\ Len(messages) >= 3
    /\ messages[1].content = "s1"

----------------------------------------------------------------------------
(* Order of events inside a fragment with tool calls; suspension *)

\* the info messages the caller has received, in order
RECURSIVE InfoMessages(_)
InfoMessages(pieces) ==
    IF pieces = <<>> THEN <<>>
    ELSE (IF Head(pieces).info_message # None
          THEN <<Head(pieces).info_message>> ELSE <<>>) \o InfoMessages(Tail(pieces))

\* the info messages of the first n requested calls
InfoOf(n) ==
    [i \in 1..n |-> tool_display_message(Requested[i].function, Requested[i].arguments)]

\* the generator is inside "for tool_call in chat_piece.tool_calls"
InToolLoop == status = "running" /\ pc \in {"tool_for", "y_info", "exec"}

\* calls of the fragments before the current one
EarlierCalls == Len(Requested) - Len(chat_piece.tool_calls)

\* at call ti of the fragment: the infos of calls 1..ti are out once the info
\* of ti is yielded, the results of calls 1..ti-1 are in the log and that of
\* ti is not
C14_InfoRunAppend ==
    InToolLoop =>
        LET infos == IF pc = "tool_for" THEN ti - 1 ELSE ti
        IN  /\ InfoMessages(out) = InfoOf(EarlierCalls + infos)
            /\ ToolResults(TurnMessages) = SubSeq(Requested, 1, EarlierCalls + ti - 1)
            /\ Len(WithRole(TurnMessages, "tool")) = EarlierCalls + ti - 1

\* the connector is pulled again only with every info out and every result in
C14_BeforeNextFragment ==
    (status = "running" /\ pc = "for") =>
        /\ InfoMessages(out) = InfoOf(Len(Requested))
        /\ ToolResults(TurnMessages) = Requested

(* C14: within one fragment carrying tool calls t1..tk the events occur in
   the order info(t1), execute(t1), append(t1), info(t2), ..., append(tk):
   each info fragment is emitted before its tool runs, each result is
   appended before the next info fragment and before a further fragment is
   pulled, and the tool-role messages are in the arrival order of the calls. *)
C14_ToolOrder == C14_InfoRunAppend /\ C14_BeforeNextFragment

C14_Witness ==
    /\ pc = "exec"
    /\ ti = 2
    /\ Len(chat_piece.tool_calls) = 2
    /\ Len(Requested) = 3
    /\ Len(out) = 3

\* while the generator waits at a yield nothing happens to the log, the
\* backend or the output
C15_SuspendedFrame ==
    pc \in Suspended =>
        (messages' = messages /\ conn_hist' = conn_hist /\ out' = out)

\* abandoned right after an info fragment: the request of that call is in an
\* assistant message of the turn and the call has no tool message
C15_AbandonedAfterInfo ==
    (status = "abandoned" /\ out # <<>> /\ Last(out).info_message # None) =>
        LET n == Len(InfoMessages(out))
        IN  /\ \E i \in 1..Len(TurnMessages) :
                  /\ TurnMessages[i].role = "assistant"
                  /\ \E j \in 1..Len(TurnMessages[i].tool_calls) :
                        TurnMessages[i].tool_calls[j] = Requested[n]
            /\ ToolResults(TurnMessages) = SubSeq(Requested, 1, n - 1)
            /\ Len(WithRole(TurnMessages, "tool")) = n - 1

(* C15: the turn makes progress only when the caller pulls: between two pulls
   the log is unchanged, no tool runs and no backend call is made; if the
   caller abandons the sequence after a fragment, the log stays as it was at
   that yield (abandoning right after a tool's info fragment leaves the
   assistant message with its tool request in the log, with no tool-role
   message, and the tool is never executed). *)
C15_ProgressOnPull == []C15_AbandonedAfterInfo /\ [][C15_SuspendedFrame]_vars

C15_Witness ==
    /\ mode = "stream"
    /\ status = "abandoned"
    /\ Len(out) = 1
    /\ Last(out).info_message # None
    /\ Last(messages).role = "assistant"
    /\ Last(messages).tool_calls # <<>>

----------------------------------------------------------------------------
(* Tool requests in the log; the end of a turn *)

(* C16: in both entry points a fragment carrying tool requests that arrives
   while the last log entry is an assistant message is merged into that entry
   (its tool_calls replaced); a new assistant message is appended only when
   the last entry is not an assistant message. *)
C16_ToolRequestsMerged ==
    [][(pc = "piece" /\ HasTools(chat_piece)) =>
          IF Last(messages).role = "assistant"
          THEN messages' = [messages EXCEPT
                              ![Len(messages)].tool_calls = chat_piece.tool_calls]
          ELSE messages' = Append(messages,
                              Message("assistant", None, chat_piece.tool_calls, args.model))]_vars

(* C20: every turn that reaches DONE has appended at least one assistant
   message after the turn's user message, so the last log entry is an
   assistant message and two user messages are never adjacent; also when a
   backend call returns an empty fragment sequence. *)
C20_DoneEndsWithAssistant ==
    /\ status = "done" =>
          /\ Last(messages).role = "assistant"
          /\ WithRole(TurnMessages, "assistant") # <<>>
    /\ clean =>
          \A i \in 1..(Len(messages) - 1) :
              ~(messages[i].role = "user" /\ messages[i + 1].role = "user")

\* in ms every ToolCall of an assistant message has its tool message right
\* after that message, in the order of the calls, and every tool message is
\* one of these
Paired(ms) ==
    /\ \A i \in 1..Len(ms) :
          ms[i].role = "assistant" =>
              \A j \in 1..Len(ms[i].tool_calls) :
                  /\ i + j <= Len(ms)
                  /\ ms[i + j].role = "tool"
                  /\ ms[i + j].tool_calls = <<ms[i].tool_calls[j]>>
    /\ \A p \in 1..Len(ms) :
          ms[p].role = "tool" =>
              \E i \in 1..(p - 1) :
                  /\ ms[i].role = "assistant"
                  /\ p - i <= Len(ms[i].tool_calls)
                  /\ ms[p].tool_calls = <<ms[i].tool_calls[p - i]>>

(* C17: after any sequence of normally completed turns and
   delete_last_interaction calls, every ToolCall listed in an assistant
   message of the log is followed, before the next user or assistant message,
   by exactly one tool-role message carrying it, and every tool-role message
   follows the assistant message that requested it. *)
C17_NoDanglingToolRequest ==
    (pc = "idle" /\ clean) => Paired(messages)

----------------------------------------------------------------------------
(* The two entry points on a connector of complete pieces *)

\* every backend call of the turn returned exactly one piece and none failed
OnePiecePerCall ==
    /\ ~RoutingFails
    /\ exc # "BackendError"
    /\ conn_hist # <<>>
    /\ \A k \in 1..Len(conn_hist) : Len(conn_hist[k]) = 1

TurnOver == mode # None /\ status \in {"done", "failed", "raised"}

Min(a, b) == IF a < b THEN a ELSE b

\* the outputs of the tools that ran in the turn, in order
ToolOutputsOf(ms) ==
    [i \in 1..Len(WithRole(ms, "tool")) |-> WithRole(ms, "tool")[i].content]

\* the messages that the pieces of calls put in a log, given the outputs of the
\* tools that ran: one assistant message per piece, and after a tool piece the
\* tool messages of its calls
RECURSIVE LogOf(_, _, _)
LogOf(calls, outputs, model) ==
    IF calls = <<>> THEN <<>>
    ELSE LET piece == Head(calls)[1]
             n == Min(Len(piece.tool_calls), Len(outputs))
         IN  IF HasTools(piece)
             THEN <<Message("assistant", None, piece.tool_calls, model)>>
                  \o [j \in 1..n |-> Message("tool", outputs[j], <<piece.tool_calls[j]>>, None)]
                  \o LogOf(Tail(calls), SubSeq(outputs, n + 1, Len(outputs)), model)
             ELSE <<Message("assistant", piece.content, <<>>, model)>>
                  \o LogOf(Tail(calls), outputs, model)

\* the fragments that the pieces of calls give the caller, given the number of
\* tools that were announced: their infos, and each content piece stamped
RECURSIVE FragmentsOf(_, _, _)
FragmentsOf(calls, announced, model) ==
    IF calls = <<>> THEN <<>>
    ELSE LET piece == Head(calls)[1]
             n == Min(Len(piece.tool_calls), announced)
         IN  IF HasTools(piece)
             THEN [j \in 1..n |->
                     ChatMessagePiece(None, <<>>,
                        tool_display_message(piece.tool_calls[j].function,
                                             piece.tool_calls[j].arguments), None)]
                  \o FragmentsOf(Tail(calls), announced - n, model)
             ELSE <<ChatMessagePiece(piece.content, <<>>, None, model)>>
                  \o FragmentsOf(Tail(calls), announced, model)

\* the tools announced in a turn that is over: those that ran, and the one
\* that failed
Announced ==
    Len(WithRole(TurnMessages, "tool")) + (IF exc = None THEN 0 ELSE 1)

\* in either entry point the log of the turn is the one the pieces determine
C19_SameLog ==
    (TurnOver /\ OnePiecePerCall) =>
        TurnMessages = LogOf(conn_hist, ToolOutputsOf(TurnMessages), args.model)

(* C19: for every connector whose each backend call returns exactly one
   complete piece and never fails, get_stream_response and get_json_response
   started from the same log produce the same final log and the same sequence
   of fragments to the caller: in either entry point the log and the
   fragments are those the pieces and the tool outputs determine.  Stated
   for the turns in which no tool body raises. *)
C19_SameLogSameFragments ==
    /\ C19_SameLog
    /\ (TurnOver /\ OnePiecePerCall /\ exc # "DuckDuckGoSearchException") =>
          out = FragmentsOf(conn_hist, Announced, args.model)

\* the fragments differ only by the error notice of get_stream_response, where
\* get_json_response raises
C19_FragmentsUpToFailure ==
    (TurnOver /\ OnePiecePerCall) =>
        /\ exc = None =>
              (status = "done" /\ out = FragmentsOf(conn_hist, Announced, args.model))
        /\ exc # None =>
              /\ exc \in {"KeyError", "DuckDuckGoSearchException"}
              /\ status = (IF mode = "stream" THEN "failed" ELSE "raised")
              /\ out = FragmentsOf(conn_hist, Announced, args.model)
                        \o (IF mode = "stream"
                            THEN <<ChatMessagePiece(ErrorNotice(exc), <<>>, None, None)>>
                            ELSE <<>>)

\* C19 as amended: the same log in every case, the same fragments when the
\* turn is done, and after a failed tool lookup or tool run the same fragments
\* followed by the error notice in get_stream_response only
C19_SameLogSameFragmentsWhenDone == C19_SameLog /\ C19_FragmentsUpToFailure

C19_Witness ==
    /\ mode = "json"
    /\ status = "done"
    /\ OnePiecePerCall
    /\ Len(conn_hist) = 2
    /\ Len(Requested) = 2

C19_WitnessFailure ==
    /\ mode = "stream"
    /\ status = "failed"
    /\ OnePiecePerCall
    /\ Len(conn_hist) = 2
    /\ Announced = 2

====
